---- MODULE Spec2Model ----
(***************************************************************************)
(* Model of fastq_set's short DNA sequence container (src/sseq.rs):        *)
(* the one-Hamming-distance neighbour iterator SSeqOneHammingIter, the     *)
(* 2-bit encoding encode_2bit_u32, the alphabet validation and the         *)
(* homopolymer predicate.                                                  *)
(*                                                                         *)
(* Bytes are modelled as one-character strings.  Rust indices are kept     *)
(* 0-based (position, chars_index, str_pos, bit_pos); TLA+ sequences are   *)
(* 1-based, so every read of a slice goes through an accessor that adds 1  *)
(* and that reports an out-of-range index the way Rust's checked indexing  *)
(* does (a panic).                                                         *)
(***************************************************************************)
EXTENDS Integers, Sequences, FiniteSets, TLC

VARIABLES
    given,      \* enumerator id -> the arguments of one_hamming_iter (source, opt)
    iters,      \* enumerator id -> the SSeqOneHammingIter struct
    out,        \* enumerator id -> every value returned by next() so far, in order
    bytes,      \* the byte slice handed to the container operations
    res,        \* outcome of the last container operation applied to bytes
    cont,       \* the container that is built and appended to
    hist        \* the calls made on cont so far: operation, argument, outcome

vars == <<given, iters, out, bytes, res, cont, hist>>

(***************************************************************************)
(* Bounds of the model.                                                    *)
(***************************************************************************)
\* longest source of a single enumerator
MaxLen == 4
\* longest source of the two enumerators that are stepped interleaved
MaxPairLen == 3
\* number of next() calls made on an enumerator that is already exhausted
MaxNone == 2

(***************************************************************************)
(* Alphabet.                                                               *)
(***************************************************************************)
UPPER_ACGTN == <<"A", "C", "G", "T", "N">>

N_BASE_INDEX == 4

\* the bytes a container can hold (what validate_bytes lets through)
Alphabet == {UPPER_ACGTN[k] : k \in 1..Len(UPPER_ACGTN)}

\* all sequences over S of length 0..n
SeqsUpTo(S, n) == UNION {[1..k -> S] : k \in 0..n}

(***************************************************************************)
(* Option / panic values.                                                  *)
(***************************************************************************)
None == [tag |-> "None"]

Some(x) == [tag |-> "Some", val |-> x]

Panic(msg) == [tag |-> "Panic", msg |-> msg]

\* no container operation was called yet
NoCall == [op |-> "none", ret |-> [tag |-> "NotCalled"]]

\* no container is being built
NoContainer == [bytes |-> <<>>, length |-> 0]

(***************************************************************************)
(* HammingIterOpt and SSeqOneHammingIter::new.                             *)
(***************************************************************************)
HammingIterOpt == {"MutateNBase", "SkipNBase"}

\* mutant of new: the lower-case character table is taken
new_LowerChars(sseq, opt) ==
    [source      |-> sseq,
     chars       |-> <<"a", "c", "g", "t", "n">>,
     position    |-> 0,
     chars_index |-> 0,
     skip_n      |-> IF opt = "SkipNBase" THEN TRUE ELSE FALSE]

\* mutant of new: the policy is ignored, N bases are always mutated
new_NeverSkip(sseq, opt) ==
    [source      |-> sseq,
     chars       |-> UPPER_ACGTN,
     position    |-> 0,
     chars_index |-> 0,
     skip_n      |-> FALSE]

\* mutant of new: the arms of the match on opt are swapped
new_PolicySwapped(sseq, opt) ==
    [source      |-> sseq,
     chars       |-> UPPER_ACGTN,
     position    |-> 0,
     chars_index |-> 0,
     skip_n      |-> IF opt = "SkipNBase" THEN FALSE ELSE TRUE]

new(sseq, opt) ==
    [source      |-> sseq,
     chars       |-> UPPER_ACGTN,
     position    |-> 0,
     chars_index |-> 0,
     skip_n      |-> IF opt = "SkipNBase" THEN TRUE ELSE FALSE]

one_hamming_iter(sseq, opt) == new(sseq, opt)

(***************************************************************************)
(* SSeqOneHammingIter::next.                                               *)
(***************************************************************************)
\* mutant of IsExhausted: > for >=
IsExhausted_OffByOne(it) == it.position > Len(it.source)

\* self.position >= self.source.len()
IsExhausted(it) == it.position >= Len(it.source)

\* mutant of AdvanceCond: the position is left one candidate early (T is never tried)
AdvanceCond_DropsT(it, base_at_pos) ==
    \/ (it.skip_n /\ base_at_pos = it.chars[N_BASE_INDEX + 1])
    \/ it.chars_index >= N_BASE_INDEX - 1

\* mutant of AdvanceCond: > for >=, so that chars[N_BASE_INDEX] is tried as a candidate
AdvanceCond_ReachesN(it, base_at_pos) ==
    \/ (it.skip_n /\ base_at_pos = it.chars[N_BASE_INDEX + 1])
    \/ it.chars_index > N_BASE_INDEX

\* mutant of AdvanceCond: the test of chars_index is missing
AdvanceCond_NoIndexLimit(it, base_at_pos) ==
    it.skip_n /\ base_at_pos = it.chars[N_BASE_INDEX + 1]

\* the first branch: an N that is skipped, or all of ACGT were used here
AdvanceCond(it, base_at_pos) ==
    \/ (it.skip_n /\ base_at_pos = it.chars[N_BASE_INDEX + 1])
    \/ it.chars_index >= N_BASE_INDEX

\* mutant of AdvancePosition: chars_index is not reset
AdvancePosition_KeepsIndex(it) == [it EXCEPT !.position = @ + 1]

\* self.position += 1; self.chars_index = 0;
AdvancePosition(it) == [it EXCEPT !.position = @ + 1, !.chars_index = 0]

\* mutant of AdvanceChar: the candidate index is left as it was
AdvanceChar_Stays(it) == it

\* self.chars_index += 1;
AdvanceChar(it) == [it EXCEPT !.chars_index = @ + 1]

\* let mut next_sseq = self.source; next_sseq[self.position] = self.chars[self.chars_index];
Substitute(it) == [it.source EXCEPT ![it.position + 1] = it.chars[it.chars_index + 1]]

\* mutant of AfterEmit: the substitution is made in self.source itself, not in a copy
AfterEmit_WritesBack(it, next_sseq) == [it EXCEPT !.chars_index = @ + 1, !.source = next_sseq]

\* the struct after an item was built: next_sseq is a copy, self.source is untouched
AfterEmit(it, next_sseq) == AdvanceChar(it)

\* One call of next(): the struct after the call, the value returned, and the
\* number of self-recursive re-entries the call made.
RECURSIVE next(_)
next(it) ==
    IF IsExhausted(it)
    THEN [it |-> it, ret |-> None, reentries |-> 0]
    ELSE IF it.position >= Len(it.source)
    THEN [it |-> it, ret |-> Panic("index out of bounds: source"), reentries |-> 0]
    ELSE LET base_at_pos == it.source[it.position + 1] IN
         IF AdvanceCond(it, base_at_pos)
         THEN LET r == next(AdvancePosition(it)) IN [r EXCEPT !.reentries = @ + 1]
         ELSE IF it.chars_index >= Len(it.chars)
         THEN [it |-> it, ret |-> Panic("index out of bounds: chars"), reentries |-> 0]
         ELSE IF base_at_pos = it.chars[it.chars_index + 1]
         THEN LET r == next(AdvanceChar(it)) IN [r EXCEPT !.reentries = @ + 1]
         ELSE LET next_sseq == Substitute(it) IN
              [it |-> AfterEmit(it, next_sseq), ret |-> Some(next_sseq), reentries |-> 0]

(***************************************************************************)
(* The enumerators as a state machine.                                     *)
(***************************************************************************)
\* number of None values in a return history
NoneCount(h) == Cardinality({k \in 1..Len(h) : h[k] = None})

\* an enumerator that panicked is gone with its caller
Panicked(h) == \E k \in 1..Len(h) : h[k].tag = "Panic"

\* mutant of StoreIter: the cursor is state shared by all enumerators
StoreIter_Shared(i, it) == [j \in DOMAIN iters |-> it]

\* the struct table after enumerator i made a call that left its struct as it
StoreIter(i, it) == [iters EXCEPT ![i] = it]

\* enumerator i: one call of next()
CallNext(i) ==
    /\ NoneCount(out[i]) < MaxNone
    /\ ~Panicked(out[i])
    /\ LET r == next(iters[i]) IN
         /\ iters' = StoreIter(i, r.it)
         /\ out' = [out EXCEPT ![i] = Append(@, r.ret)]
    /\ UNCHANGED <<given, bytes, res, cont, hist>>

Next == \E i \in DOMAIN iters : CallNext(i)

\* one enumerator over any source of length 0..MaxLen, either policy
Init ==
    /\ \E s \in SeqsUpTo(Alphabet, MaxLen), opt \in HammingIterOpt :
         /\ given = <<[source |-> s, opt |-> opt]>>
         /\ iters = <<one_hamming_iter(s, opt)>>
    /\ out = <<<<>>>>
    /\ bytes = <<>>
    /\ res = NoCall
    /\ cont = NoContainer
    /\ hist = <<>>

Spec == Init /\ [][Next]_vars

\* two enumerators constructed over the same source and policy
InitPair ==
    /\ \E s \in SeqsUpTo(Alphabet, MaxPairLen), opt \in HammingIterOpt :
         /\ given = <<[source |-> s, opt |-> opt], [source |-> s, opt |-> opt]>>
         /\ iters = <<one_hamming_iter(s, opt), one_hamming_iter(s, opt)>>
    /\ out = <<<<>>, <<>>>>
    /\ bytes = <<>>
    /\ res = NoCall
    /\ cont = NoContainer
    /\ hist = <<>>

SpecPair == InitPair /\ [][Next]_vars

\* two enumerators over the same source, the first with MutateNBase, the
\* second with SkipNBase
InitPolicies ==
    /\ \E s \in SeqsUpTo(Alphabet, MaxPairLen) :
         /\ given = <<[source |-> s, opt |-> "MutateNBase"], [source |-> s, opt |-> "SkipNBase"]>>
         /\ iters = <<one_hamming_iter(s, "MutateNBase"), one_hamming_iter(s, "SkipNBase")>>
    /\ out = <<<<>>, <<>>>>
    /\ bytes = <<>>
    /\ res = NoCall
    /\ cont = NoContainer
    /\ hist = <<>>

SpecPolicies == InitPolicies /\ [][Next]_vars

(***************************************************************************)
(* One call of next(), pass by pass: each pass through the body ends in a  *)
(* return or in the self-recursive call self.next().                       *)
(***************************************************************************)
Reenter == [tag |-> "Reenter"]

\* the indices read by one pass: of source, of chars, and those of chars that
\* were self.chars_index
Reads(src, chs, at) == [source |-> src, chars |-> chs, at_index |-> at]

\* chars[N_BASE_INDEX] is read only if skip_n holds (&& short-circuits)
SkipTestReads(it) == IF it.skip_n THEN {N_BASE_INDEX} ELSE {}

\* one pass through the body of next(): the struct after it, what it returns
\* (Reenter for self.next()), and the indices it read
next_step(it) ==
    IF IsExhausted(it)
    THEN [it |-> it, ret |-> None, read |-> Reads({}, {}, {})]
    ELSE IF it.position >= Len(it.source)
    THEN [it |-> it, ret |-> Panic("index out of bounds: source"),
          read |-> Reads({it.position}, {}, {})]
    ELSE LET base_at_pos == it.source[it.position + 1] IN
         IF AdvanceCond(it, base_at_pos)
         THEN [it |-> AdvancePosition(it), ret |-> Reenter,
               read |-> Reads({it.position}, SkipTestReads(it), {})]
         ELSE IF it.chars_index >= Len(it.chars)
         THEN [it |-> it, ret |-> Panic("index out of bounds: chars"),
               read |-> Reads({it.position}, SkipTestReads(it) \cup {it.chars_index},
                              {it.chars_index})]
         ELSE IF base_at_pos = it.chars[it.chars_index + 1]
         THEN [it |-> AdvanceChar(it), ret |-> Reenter,
               read |-> Reads({it.position}, SkipTestReads(it) \cup {it.chars_index},
                              {it.chars_index})]
         ELSE LET next_sseq == Substitute(it) IN
              [it |-> AfterEmit(it, next_sseq), ret |-> Some(next_sseq),
               read |-> Reads({it.position}, SkipTestReads(it) \cup {it.chars_index},
                              {it.chars_index})]

\* a call of next() is in progress
Running == res.ret.tag = "Reenter"

\* one pass of the call in progress, or the first pass of a new call
Step ==
    /\ res.ret.tag # "Panic"
    /\ NoneCount(out[1]) < MaxNone
    /\ LET s     == next_step(iters[1])
           done  == IF Running THEN res.reentries ELSE 0
           start == IF Running THEN res.start ELSE iters[1]
       IN  /\ iters' = <<s.it>>
           /\ out' = IF s.ret = Reenter THEN out ELSE <<Append(out[1], s.ret)>>
           /\ res' = [op        |-> "next",
                      ret       |-> s.ret,
                      reentries |-> IF s.ret = Reenter THEN done + 1 ELSE done,
                      start     |-> start,
                      read      |-> s.read]
    /\ UNCHANGED <<given, bytes, cont, hist>>

NextStep == Step

\* one enumerator over any source of length 0..MaxLen, either policy, not called yet
InitStep ==
    /\ \E s \in SeqsUpTo(Alphabet, MaxLen), opt \in HammingIterOpt :
         /\ given = <<[source |-> s, opt |-> opt]>>
         /\ iters = <<one_hamming_iter(s, opt)>>
         /\ res = [op |-> "next", ret |-> [tag |-> "NotCalled"], reentries |-> 0,
                   start |-> one_hamming_iter(s, opt), read |-> Reads({}, {}, {})]
    /\ out = <<<<>>>>
    /\ bytes = <<>>
    /\ cont = NoContainer
    /\ hist = <<>>

SpecStep == InitStep /\ [][NextStep]_vars

\* a call that was entered is run to its return
SpecStepLive == SpecStep /\ WF_vars(Step)

(***************************************************************************)
(* Container operations: validate_bytes, is_homopolymer, encode_2bit_u32.  *)
(***************************************************************************)
\* longest byte slice drawn over all bytes (allowed or not)
MaxBytesLen == 3
\* longest period of the periodic sequences drawn for the encoding
MaxSeed == 3
\* longest periodic sequence drawn for the encoding
MaxEncLen == 25

\* mutant of SSeqCapacity: one byte more than the type's capacity is taken
SSeqCapacity_OffByOne == 23 + 1

\* capacity of SSeq = SSeqGen<23>
SSeqCapacity == 23

\* assert!(self.len() <= 16)
EncodeMaxLen == 16

\* bytes outside "ACGTN" that the tests feed to from_bytes (b"ASDF", b"ag")
OtherBytes == {"a", "g", "S"}

Ok(x) == [tag |-> "Ok", val |-> x]

\* a panic of validate_bytes: the message names the byte and its position
PanicAt(msg, s, i) == [tag |-> "Panic", msg |-> msg, byte |-> s, position |-> i]

\* the upper-case letter of a byte
ToUpper(s) == CASE s = "a" -> "A" [] s = "g" -> "G" [] OTHER -> s

\* mutant of NotACGTN: the comparison ignores the case of the byte
NotACGTN_IgnoreCase(s) == ~(\E k \in 1..Len(UPPER_ACGTN) : UPPER_ACGTN[k] = ToUpper(s))

\* mutant of NotACGTN: only the four bases are compared, 'N' is turned away
NotACGTN_RejectsN(s) == ~(\E k \in 1..N_BASE_INDEX : UPPER_ACGTN[k] = s)

\* !UPPER_ACGTN.iter().any(|&c| c == s)
NotACGTN(s) == ~(\E k \in 1..Len(UPPER_ACGTN) : UPPER_ACGTN[k] = s)

\* the loop of validate_bytes from index i (0-based) on
RECURSIVE validate_from(_, _)
validate_from(seq, i) ==
    IF i >= Len(seq) THEN Ok("unit")
    ELSE IF NotACGTN(seq[i + 1])
    THEN PanicAt("Non ACGTN character at position", seq[i + 1], i)
    ELSE validate_from(seq, i + 1)

validate_bytes(seq) == validate_from(seq, 0)

\* the values of the type SSeq: at most 23 bytes, validated
IsSSeq(seq) == Len(seq) <= SSeqCapacity /\ validate_bytes(seq).tag = "Ok"

\* the fill byte of the unused part of the array
NUL == "NUL"

\* the storage of a container: an array of SSeqCapacity bytes and a length
Stored(b) ==
    [bytes  |-> [k \in 1..SSeqCapacity |-> IF k <= Len(b) THEN b[k] ELSE NUL],
     length |-> Len(b)]

\* ByteArray::new: the empty container
ByteArray_new == Stored(<<>>)

\* the stored bytes as a slice of length L, in storage order
as_bytes(c) == SubSeq(c.bytes, 1, c.length)

\* pub fn seq(&self) -> &[u8] { self.as_bytes() }
SSeqGen_seq(c) == as_bytes(c)

\* from_bytes: every byte validated (InvalidAlphabet), then the length
\* against the capacity (CapacityExceeded); the container holds exactly b
from_bytes(b) ==
    LET v == validate_bytes(b) IN
    IF v.tag = "Panic" THEN v
    ELSE IF Len(b) > SSeqCapacity THEN Panic("capacity exceeded")
    ELSE Ok(Stored(b))

\* from_iter: equivalent to from_bytes, over the bytes the iterator yields
from_iter(b) == from_bytes(b)

\* mutant of NonEmptyAssert: the assertion is missing
NonEmptyAssert_Missing(seq) == TRUE

\* assert!(!self.is_empty())
NonEmptyAssert(seq) == Len(seq) # 0

\* iter().all(|&x| x == c): the bytes are tried in order, up to the first other byte
RECURSIVE IterAllFrom(_, _, _)
IterAllFrom(s, c, i) ==
    IF i > Len(s) THEN TRUE
    ELSE IF s[i] # c THEN FALSE
    ELSE IterAllFrom(s, c, i + 1)

(***************************************************************************)
(* Serialization of a container: the text form is the string of its        *)
(* symbols, the binary form its length followed by its bytes.              *)
(***************************************************************************)
\* the u8 value of each byte of the alphabet
Ascii == [b \in Alphabet |-> CASE b = "A" -> 65 [] b = "C" -> 67 [] b = "G" -> 71
                                [] b = "N" -> 78 [] b = "T" -> 84]

\* the byte of a u8 value (NUL for a value that is no byte of the alphabet)
Chr(n) == IF \E b \in Alphabet : Ascii[b] = n
          THEN CHOOSE b \in Alphabet : Ascii[b] = n ELSE NUL

Err(msg) == [tag |-> "Err", msg |-> msg]

\* the delimiter of a JSON string
Quote == "\""

\* mutant of TextPayload: the whole array is written, unused tail included
TextPayload_WholeArray(c) == c.bytes

\* the bytes written as text: the symbols held, and no more
TextPayload(c) == as_bytes(c)

serialize_text(c) == <<Quote>> \o TextPayload(c) \o <<Quote>>

\* the string between the quotes is constructed under the rule of from_bytes
deserialize_text(t) ==
    IF Len(t) < 2 \/ t[1] # Quote \/ t[Len(t)] # Quote THEN Err("expected a string")
    ELSE LET r == from_bytes(SubSeq(t, 2, Len(t) - 1)) IN
         IF r.tag = "Ok" THEN r ELSE Err(r.msg)

\* the length, then the u8 value of each symbol held
serialize_binary(c) == <<c.length>> \o [k \in 1..c.length |-> Ascii[c.bytes[k]]]

\* the length is read, then as many bytes as it says; the bytes are
\* constructed under the rule of from_bytes
deserialize_binary(w) ==
    IF Len(w) < 1 \/ Len(w) - 1 # w[1] THEN Err("unexpected end of input")
    ELSE LET r == from_bytes([k \in 1..w[1] |-> Chr(w[k + 1])]) IN
         IF r.tag = "Ok" THEN r ELSE Err(r.msg)

\* mutant of IterAll: any for all
IterAll_Any(s, c) == \E k \in 1..Len(s) : s[k] = c

IterAll(s, c) == IterAllFrom(s, c, 1)

\* self.seq()[0], read by the closure for each byte tried
FirstByte(seq) == seq[1]

is_homopolymer(seq) ==
    IF ~NonEmptyAssert(seq) THEN Panic("assertion failed: !self.is_empty()")
    ELSE Ok(IterAll(seq, FirstByte(seq)))

\* mutant of RevTake: the first n bytes are taken
RevTake_Front(s, n) == [k \in 1..(IF n < Len(s) THEN n ELSE Len(s)) |-> s[k]]

\* self.iter().rev().take(n): the last n bytes, last one first (all of them if n > len)
RevTake(s, n) == [k \in 1..(IF n < Len(s) THEN n ELSE Len(s)) |-> s[Len(s) - k + 1]]

\* self.len() as usize >= n && self.iter().rev().take(n).all(|&x| x == c)
has_homopolymer_suffix(seq, c, n) == Len(seq) >= n /\ IterAll(RevTake(seq, n), c)

has_polyt_suffix(seq, n) == has_homopolymer_suffix(seq, "T", n)

\* A u32 as its two 16-bit halves (value = hi * 2^16 + lo).
U32(hi, lo) == [hi |-> hi, lo |-> lo]

Half == 65536

\* bitwise or of two naturals
RECURSIVE BitOr(_, _)
BitOr(a, b) ==
    IF a = 0 THEN b
    ELSE IF b = 0 THEN a
    ELSE (IF a % 2 = 1 \/ b % 2 = 1 THEN 1 ELSE 0) + 2 * BitOr(a \div 2, b \div 2)

\* res |= v
Or32(x, y) == U32(BitOr(x.hi, y.hi), BitOr(x.lo, y.lo))

\* mutant of Shl32: the shift is made in 16 bits, bits past bit 15 are lost
Shl32_Low(byte, sh) ==
    IF sh < 16 THEN U32(0, (byte * (2 ^ sh)) % Half) ELSE U32(0, 0)

\* byte << sh for a byte value below 2^16 and 0 <= sh < 32; bits shifted past
\* bit 31 are lost
Shl32(byte, sh) ==
    IF sh < 16
    THEN U32(((byte * (2 ^ sh)) \div Half) % Half, (byte * (2 ^ sh)) % Half)
    ELSE U32((byte * (2 ^ (sh - 16))) % Half, 0)

\* mutant of LenAssert: < for <=
LenAssert_Strict(seq) == Len(seq) < EncodeMaxLen

\* assert!(self.len() <= 16)
LenAssert(seq) == Len(seq) <= EncodeMaxLen

\* the match on seq[str_pos]: the 2-bit value, or 4 for the `_` arm
MatchBase(b) ==
    CASE b = "A" -> 0
      [] b = "C" -> 1
      [] b = "G" -> 2
      [] b = "T" -> 3
      [] OTHER -> 4

\* mutant of StrPos: the sequence is walked forwards
StrPos_Forward(len, bit_pos) == bit_pos

\* (0..self.len()).rev().enumerate(): the bit_pos-th element of the reversed range
StrPos(len, bit_pos) == len - 1 - bit_pos

\* the for loop of encode_2bit_u32 from iteration bit_pos on, with res so far
RECURSIVE encode_loop(_, _, _)
encode_loop(seq, bit_pos, acc) ==
    IF bit_pos >= Len(seq) THEN Ok(acc)
    ELSE LET str_pos == StrPos(Len(seq), bit_pos)
             byte == MatchBase(seq[str_pos + 1])
         IN  IF byte = 4 THEN Panic("non-ACGT sequence")
             ELSE IF bit_pos * 2 >= 32 THEN Panic("attempt to shift left with overflow")
             ELSE encode_loop(seq, bit_pos + 1, Or32(acc, Shl32(byte, bit_pos * 2)))

encode_2bit_u32(seq) ==
    IF ~LenAssert(seq) THEN Panic("assertion failed: self.len() <= 16")
    ELSE encode_loop(seq, 0, U32(0, 0))

\* the inputs of the test dna_encode
DnaEncodeInputs ==
    { <<"A", "A", "A", "A", "A">>, <<"A", "A", "A", "A", "T">>, <<"A", "A", "A", "C", "A">>,
      <<"A", "A", "C", "A", "A">>, <<"A", "A", "T", "A">> }

\* the value of test_serde and test_serde_json: AGCTAGTCAGTCAGTA
SerdeTestSeq == <<"A","G","C","T","A","G","T","C","A","G","T","C","A","G","T","A">>

\* seed repeated to length n
Periodic(seed, n) == [k \in 1..n |-> seed[((k - 1) % Len(seed)) + 1]]

\* sequences of one repeated base with a byte outside the alphabet at one end
BadLong ==
    UNION {{[Periodic(<<a>>, n) EXCEPT ![p] = o] : a \in Alphabet, p \in {1, n}, o \in OtherBytes} :
              n \in 1..MaxEncLen}

\* the byte slices the container operations are applied to
Inputs ==
    SeqsUpTo(Alphabet \cup OtherBytes, MaxBytesLen)
    \cup {Periodic(seed, n) : seed \in SeqsUpTo(Alphabet, MaxSeed) \ {<<>>}, n \in 0..MaxEncLen}
    \cup DnaEncodeInputs
    \cup {SerdeTestSeq}
    \cup BadLong

\* a caller that panicked does not go on
Alive == res.ret.tag # "Panic"

CallValidateBytes ==
    /\ Alive
    /\ res' = [op |-> "validate_bytes", ret |-> validate_bytes(bytes)]
    /\ UNCHANGED <<given, iters, out, bytes, cont, hist>>

CallFromBytes ==
    /\ Alive
    /\ res' = [op |-> "from_bytes", ret |-> from_bytes(bytes)]
    /\ UNCHANGED <<given, iters, out, bytes, cont, hist>>

CallIsHomopolymer ==
    /\ Alive
    /\ IsSSeq(bytes)
    /\ res' = [op |-> "is_homopolymer", ret |-> is_homopolymer(bytes)]
    /\ UNCHANGED <<given, iters, out, bytes, cont, hist>>

CallEncode ==
    /\ Alive
    /\ IsSSeq(bytes)
    /\ res' = [op |-> "encode_2bit_u32", ret |-> encode_2bit_u32(bytes)]
    /\ UNCHANGED <<given, iters, out, bytes, cont, hist>>

\* serde_json::to_string(&seq) then serde_json::from_str
RoundTripText ==
    /\ Alive
    /\ from_bytes(bytes).tag = "Ok"
    /\ LET wire == serialize_text(from_bytes(bytes).val) IN
       res' = [op |-> "serde_json", wire |-> wire, ret |-> deserialize_text(wire)]
    /\ UNCHANGED <<given, iters, out, bytes, cont, hist>>

\* bincode::serialize(&seq) then bincode::deserialize
RoundTripBinary ==
    /\ Alive
    /\ from_bytes(bytes).tag = "Ok"
    /\ LET wire == serialize_binary(from_bytes(bytes).val) IN
       res' = [op |-> "bincode", wire |-> wire, ret |-> deserialize_binary(wire)]
    /\ UNCHANGED <<given, iters, out, bytes, cont, hist>>

NextSeq ==
    \/ CallValidateBytes
    \/ CallFromBytes
    \/ CallIsHomopolymer
    \/ CallEncode
    \/ RoundTripText
    \/ RoundTripBinary

InitSeq ==
    /\ bytes \in Inputs
    /\ res = NoCall
    /\ cont = NoContainer
    /\ hist = <<>>
    /\ given = <<>>
    /\ iters = <<>>
    /\ out = <<>>

SpecSeq == InitSeq /\ [][NextSeq]_vars

(***************************************************************************)
(* encode_2bit_u32 as a key: two sequences of one length are encoded and   *)
(* the numbers compared.                                                   *)
(***************************************************************************)
\* longest sequences of which every pair is encoded
MaxKeyLen == 2
\* longest seed of the periodic sequences that are encoded
MaxKeySeed == 2

\* the bases encode_2bit_u32 has a value for
KeyBases == Alphabet \ {UPPER_ACGTN[N_BASE_INDEX + 1]}

\* pairs of sequences over ACGT of one length: every pair of short ones, and
\* for every length up to 16 a periodic sequence with the same sequence
\* changed (or not) at one position
KeyPairs(len, seedLen) ==
    UNION {[1..n -> KeyBases] \X [1..n -> KeyBases] : n \in 0..len}
    \cup UNION {{<<Periodic(seed, n), [Periodic(seed, n) EXCEPT ![p] = b]>> :
                    seed \in SeqsUpTo(KeyBases, seedLen) \ {<<>>}, p \in 1..n, b \in KeyBases} :
                n \in 1..EncodeMaxLen}

\* both sequences are encoded
EncodeBoth ==
    /\ Alive
    /\ res' = [op |-> "encode_pair",
               ret |-> Ok([a |-> encode_2bit_u32(bytes),
                           b |-> encode_2bit_u32(SSeqGen_seq(cont))])]
    /\ UNCHANGED <<given, iters, out, bytes, cont, hist>>

NextKey == EncodeBoth

\* one sequence as bytes, the other held by a container
InitKey ==
    /\ \E pr \in KeyPairs(MaxKeyLen, MaxKeySeed) :
         /\ bytes = pr[1]
         /\ cont = Stored(pr[2])
    /\ res = NoCall
    /\ hist = <<>>
    /\ given = <<>>
    /\ iters = <<>>
    /\ out = <<>>

SpecKey == InitKey /\ [][NextKey]_vars

(***************************************************************************)
(* The suffix predicates on a container.                                   *)
(***************************************************************************)
\* longest container the suffix predicates are applied to
MaxSuffixLen == 4

\* the bytes asked for: those of the alphabet and one outside it
SuffixBytes == Alphabet \cup {"a"}

CallHasHomopolymerSuffix(c, n) ==
    /\ Alive
    /\ res' = [op |-> "has_homopolymer_suffix", c |-> c, n |-> n,
               ret |-> Ok(has_homopolymer_suffix(bytes, c, n))]
    /\ UNCHANGED <<given, iters, out, bytes, cont, hist>>

CallHasPolytSuffix(n) ==
    /\ Alive
    /\ res' = [op |-> "has_polyt_suffix", c |-> "T", n |-> n,
               ret |-> Ok(has_polyt_suffix(bytes, n))]
    /\ UNCHANGED <<given, iters, out, bytes, cont, hist>>

NextSuffix ==
    \/ \E c \in SuffixBytes, n \in 0..(MaxSuffixLen + 1) : CallHasHomopolymerSuffix(c, n)
    \/ \E n \in 0..(MaxSuffixLen + 1) : CallHasPolytSuffix(n)

\* the container holds any sequence over the alphabet of length 0..MaxSuffixLen
InitSuffix ==
    /\ bytes \in SeqsUpTo(Alphabet, MaxSuffixLen)
    /\ res = NoCall
    /\ cont = NoContainer
    /\ hist = <<>>
    /\ given = <<>>
    /\ iters = <<>>
    /\ out = <<>>

SpecSuffix == InitSuffix /\ [][NextSuffix]_vars

(***************************************************************************)
(* The order on containers, and sorting by it (sort_test,                  *)
(* prop_test_sort_sseq).                                                   *)
(***************************************************************************)
\* longest sequence of the two containers compared
MaxOrdLen == 2

\* x and y compared from (1-based) position i on: the first position where
\* they differ decides by the u8 values; a sequence that ends first is less
RECURSIVE cmp_from(_, _, _)
cmp_from(x, y, i) ==
    IF i > Len(x) /\ i > Len(y) THEN "Equal"
    ELSE IF i > Len(x) THEN "Less"
    ELSE IF i > Len(y) THEN "Greater"
    ELSE IF Ascii[x[i]] < Ascii[y[i]] THEN "Less"
    ELSE IF Ascii[x[i]] > Ascii[y[i]] THEN "Greater"
    ELSE cmp_from(x, y, i + 1)

\* mutant of cmp: the lengths are compared before the bytes
cmp_LengthFirst(a, b) ==
    IF a.length < b.length THEN "Less"
    ELSE IF a.length > b.length THEN "Greater"
    ELSE cmp_from(as_bytes(a), as_bytes(b), 1)

\* Ord::cmp on two containers: the order of the byte sequences held
cmp(a, b) == cmp_from(as_bytes(a), as_bytes(b), 1)

\* PartialEq::eq on two containers
eq(a, b) == a.length = b.length /\ \A k \in 1..a.length : a.bytes[k] = b.bytes[k]

\* c inserted into the sorted list v, after the elements not greater than it
RECURSIVE insert(_, _, _)
insert(v, c, i) ==
    IF i > Len(v) THEN Append(v, c)
    ELSE IF cmp(c, v[i]) = "Less"
    THEN SubSeq(v, 1, i - 1) \o <<c>> \o SubSeq(v, i, Len(v))
    ELSE insert(v, c, i + 1)

\* Vec::sort under cmp, element by element
RECURSIVE sort_from(_, _, _)
sort_from(v, i, acc) ==
    IF i > Len(v) THEN acc ELSE sort_from(v, i + 1, insert(acc, v[i], 1))

sort(v) == sort_from(v, 1, <<>>)

\* s1..s8 of sort_test
SortTestSeqs ==
    << <<"A","C","N","G","T","A">>,
       <<"T","A","G","T","C","G","G","C">>,
       <<"C","A","T","C">>,
       <<"T","G","T","G">>,
       <<>>,
       <<"A">>,
       <<"A","A","C","C","A","T","A","G","C","C","G","G","N","A","T","C">>,
       <<"G","A","A","C","N","A","G","N","T","G","G","A">> >>

\* the containers sorted: the two compared, then those of sort_test
SortInput == <<cont, from_bytes(bytes).val>> \o [k \in DOMAIN SortTestSeqs |-> from_bytes(SortTestSeqs[k]).val]

Compare ==
    /\ Alive
    /\ res' = [op |-> "cmp",
               ret |-> Ok([ord |-> cmp(cont, from_bytes(bytes).val),
                           rev |-> cmp(from_bytes(bytes).val, cont),
                           eq  |-> eq(cont, from_bytes(bytes).val)])]
    /\ UNCHANGED <<given, iters, out, bytes, cont, hist>>

Sort ==
    /\ Alive
    /\ res' = [op |-> "sort", ret |-> Ok(sort(SortInput))]
    /\ UNCHANGED <<given, iters, out, bytes, cont, hist>>

NextOrd == Compare \/ Sort

\* two containers: one held, one constructed from the raw bytes when compared
InitOrd ==
    /\ \E a \in SeqsUpTo(Alphabet, MaxOrdLen) : cont = from_bytes(a).val
    /\ bytes \in SeqsUpTo(Alphabet, MaxOrdLen)
    /\ res = NoCall
    /\ hist = <<>>
    /\ given = <<>>
    /\ iters = <<>>
    /\ out = <<>>

SpecOrd == InitOrd /\ [][NextOrd]_vars

(***************************************************************************)
(* The paired-read record DnaRead is built on: which reads it holds, and   *)
(* the ranges taken from them.                                             *)
(***************************************************************************)
\* longest R1 of which every content is tried
MaxReadLen == 3
\* largest trim_r1
MaxTrim == 2

\* self.chunk.bc_length.unwrap_or(16)
DefaultBcLength == 16

\* a read of the pair: its sequence and its quality values, of one length
Read(sq, ql) == [seq |-> sq, qual |-> ql]

\* ReadPair::get: a part of one read, None if the pair does not hold the read
get(data, which, part) ==
    IF data[which] = None THEN None ELSE Some(data[which].val[part])

\* RpRange::new
RpRange_new(which, offset, len) == [read |-> which, offset |-> offset, len |-> len]

unwrap_or(o, d) == IF o = None THEN d ELSE o.val

\* ReadPair::check_range: the read of the range is held and is long enough
check_range(data, range, region_name) ==
    LET r == get(data, range.read, "seq") IN
    IF r = None THEN Err(<<region_name, "read missing">>)
    ELSE IF Len(r.val) < range.offset + unwrap_or(range.len, 0)
    THEN Err(<<region_name, "read too short">>)
    ELSE Ok(TRUE)

\* s[a..b] (0-based, b excluded): fails if the range is not within s
Slice(s, a, b) ==
    IF a > b \/ b > Len(s) THEN Panic("slice index out of range")
    ELSE Ok(SubSeq(s, a + 1, b))

\* s[a..]
SliceFrom(s, a) ==
    IF a > Len(s) THEN Panic("slice index out of range")
    ELSE Ok(SubSeq(s, a + 1, Len(s)))

\* ReadPair::get_range: the part of the read over the range (to the end of the
\* read if the range has no length), None if the read is not held
get_range(data, range, part) ==
    LET r == get(data, range.read, part) IN
    IF r = None THEN None
    ELSE LET sl == IF range.len = None THEN SliceFrom(r.val, range.offset)
                   ELSE Slice(r.val, range.offset, range.offset + range.len.val)
         IN  IF sl.tag = "Panic" THEN sl ELSE Some(sl.val)

\* Option::unwrap
unwrap(o) ==
    IF o.tag = "Panic" THEN o
    ELSE IF o = None THEN Panic("unwrap on a None value")
    ELSE Ok(o.val)

(***************************************************************************)
(* DnaProcessor and DnaRead.                                               *)
(***************************************************************************)
\* the barcodes of the whitelist
Whitelist == {<<"A">>, <<"A", "C">>}

DnaProcessor_new(chunk, chunk_id, whitelist) ==
    [chunk |-> chunk, chunk_id |-> chunk_id, trim_r1 |-> 0, trim_r2 |-> 0, whitelist |-> whitelist]

trim_r1(proc, t) == [proc EXCEPT !.trim_r1 = t]

\* read.check_range(&bc_range, "Barcode")?
BcCheck(read, bc_range) == check_range(read, bc_range, "Barcode")

process_read(proc, read) ==
    IF get(read, "R1", "seq") = None THEN Err("No R1 read found")
    ELSE IF get(read, "R2", "seq") = None THEN Err("No R2 read found")
    ELSE LET bc_length == unwrap_or(proc.chunk.bc_length, DefaultBcLength) IN
         IF proc.chunk.bc_in_read \notin {Some(1), None}
         THEN Err("unsupported barcode read")
         ELSE LET bc_range == IF proc.chunk.bc_in_read = Some(1)
                              THEN RpRange_new("R1", 0, Some(bc_length))
                              ELSE RpRange_new("I2", 0, proc.chunk.bc_length)
                  chk == BcCheck(read, bc_range)
              IN  IF chk.tag = "Err" THEN chk
                  ELSE LET bc_seq == unwrap(get_range(read, bc_range, "seq")) IN
                       IF bc_seq.tag = "Panic" THEN bc_seq
                       ELSE Ok([data     |-> read,
                                barcode  |-> [gem_group |-> proc.chunk.gem_group,
                                              sequence  |-> bc_seq.val,
                                              valid     |-> bc_seq.val \in proc.whitelist],
                                bc_range |-> bc_range,
                                trim_r1  |-> proc.trim_r1,
                                trim_r2  |-> proc.trim_r2,
                                chunk_id |-> proc.chunk_id])

raw_bc_seq(d) == unwrap(get_range(d.data, d.bc_range, "seq"))

raw_bc_qual(d) == unwrap(get_range(d.data, d.bc_range, "qual"))

\* fn barcode_qual(&self) -> &[u8] { self.raw_bc_seq() }
barcode_qual(d) == raw_bc_seq(d)

r1_seq_raw(d) == unwrap(get(d.data, "R1", "seq"))

r1_qual_raw(d) == unwrap(get(d.data, "R1", "qual"))

\* mutant of r1_trim_range: the trimmed bases are counted from the start of R1
r1_trim_range_FromZero(d) == [start |-> 0, end |-> d.trim_r1]

r1_trim_range(d) ==
    IF d.bc_range.read = "R1"
    THEN LET start == d.bc_range.offset + unwrap_or(d.bc_range.len, 0) IN
         [start |-> start, end |-> start + d.trim_r1]
    ELSE [start |-> 0, end |-> d.trim_r1]

\* &raw[rng] for a raw part that was unwrapped
Index(raw, rng) == IF raw.tag = "Panic" THEN raw ELSE Slice(raw.val, rng.start, rng.end)

\* &raw[rng.end..]
IndexFrom(raw, rng) == IF raw.tag = "Panic" THEN raw ELSE SliceFrom(raw.val, rng.end)

r1_trim_seq(d) == Index(r1_seq_raw(d), r1_trim_range(d))

r1_trim_qual(d) == Index(r1_qual_raw(d), r1_trim_range(d))

r1_seq(d) == IndexFrom(r1_seq_raw(d), r1_trim_range(d))

r1_qual(d) == IndexFrom(r1_qual_raw(d), r1_trim_range(d))

\* the first of the outcomes that is a panic, else the values together
AllOf(rs) ==
    IF \E k \in DOMAIN rs : rs[k].tag = "Panic"
    THEN rs[CHOOSE k \in DOMAIN rs : rs[k].tag = "Panic" /\ \A j \in 1..(k - 1) : rs[j].tag # "Panic"]
    ELSE Ok([k \in DOMAIN rs |-> rs[k].val])

\* vec![(RX, raw_bc_seq), (QX, raw_bc_qual), (TR, r1_trim_seq), (TQ, r1_trim_qual)]
tags(d) ==
    LET t == AllOf(<<raw_bc_seq(d), raw_bc_qual(d), r1_trim_seq(d), r1_trim_qual(d)>>) IN
    IF t.tag = "Panic" THEN t
    ELSE Ok(<<<<"RX", t.val[1]>>, <<"QX", t.val[2]>>, <<"TR", t.val[3]>>, <<"TQ", t.val[4]>>>>)

\* the accessors of DnaRead that are called
Accessors ==
    {"barcode_qual", "raw_bc_seq", "raw_bc_qual", "r1_trim_range", "r1_trim_seq",
     "r1_trim_qual", "r1_seq", "r1_qual", "tags"}

accessor(op, d) ==
    CASE op = "barcode_qual"  -> barcode_qual(d)
      [] op = "raw_bc_seq"    -> raw_bc_seq(d)
      [] op = "raw_bc_qual"   -> raw_bc_qual(d)
      [] op = "r1_trim_range" -> Ok(r1_trim_range(d))
      [] op = "r1_trim_seq"   -> r1_trim_seq(d)
      [] op = "r1_trim_qual"  -> r1_trim_qual(d)
      [] op = "r1_seq"        -> r1_seq(d)
      [] op = "r1_qual"       -> r1_qual(d)
      [] op = "tags"          -> tags(d)

\* the quality values of a sequence: one value for all bases, or values that
\* are the bytes of the sequence itself ('A' and 'C' are quality values too)
Quals(sq) == {[k \in 1..Len(sq) |-> "#"], sq}

\* each sequence with each of its quality strings
ReadsOf(seqs) == UNION {{Read(sq, ql) : ql \in Quals(sq)} : sq \in seqs}

LongSeqs == {Periodic(<<"A", "C">>, n) : n \in DefaultBcLength..(DefaultBcLength + MaxTrim)}

\* the chunks: barcode in R1, in I2, or in an unsupported read; a barcode
\* length given or not
Chunks ==
    [bc_in_read : {Some(1), None, Some(2)},
     bc_length  : {None, Some(1), Some(2)},
     gem_group  : {1}]

\* the read pairs: R1 and R2 held or not, I2 held (two bases) or not, no I1
ReadPairs ==
    [R1 : {None} \cup {Some(r) : r \in ReadsOf(SeqsUpTo({"A", "C"}, MaxReadLen) \cup LongSeqs)},
     R2 : {None, Some(Read(<<"C">>, <<"#">>))},
     I1 : {None},
     I2 : {None, Some(Read(<<"A", "C">>, <<"#", "#">>))}]

ProcessRead ==
    /\ res = NoCall
    /\ LET r == process_read(given.proc, given.read) IN
         /\ res' = [op |-> "process_read", ret |-> r]
         /\ cont' = IF r.tag = "Ok" THEN r.val ELSE cont
    /\ UNCHANGED <<given, iters, out, bytes, hist>>

\* an accessor is called on the DnaRead that process_read returned
Access(op) ==
    /\ Alive
    /\ cont # NoContainer
    /\ res' = [op |-> op, ret |-> accessor(op, cont)]
    /\ UNCHANGED <<given, iters, out, bytes, cont, hist>>

NextDna == ProcessRead \/ \E op \in Accessors : Access(op)

\* a processor with any trim_r1 and a read pair, not processed yet
InitDna ==
    /\ \E chunk \in Chunks, t \in 0..MaxTrim, data \in ReadPairs :
         given = [proc |-> trim_r1(DnaProcessor_new(chunk, 0, Whitelist), t), read |-> data]
    /\ res = NoCall
    /\ cont = NoContainer
    /\ hist = <<>>
    /\ bytes = <<>>
    /\ iters = <<>>
    /\ out = <<>>

SpecDna == InitDna /\ [][NextDna]_vars

(***************************************************************************)
(* A container that is constructed, appended to and enumerated:            *)
(* SSeq::new() / from_bytes, push, push (prop_test_sseq_push), then        *)
(* one_hamming_iter on the value.                                          *)
(***************************************************************************)
\* longest argument of push / from_bytes drawn over all bytes
MaxPushLen == 2
\* longest container on which an enumerator is started
MaxEnumLen == 3

\* the test appends twice: s.push(seq1); s.push(seq2)
PushesInTest == 2

\* mutant of FailedPush: the bytes of src before the failure stay appended
FailedPush_KeepsPrefix(c, src, v) ==
    LET n == IF v.msg = "capacity exceeded" THEN SSeqCapacity - c.length ELSE v.position IN
    [bytes  |-> [k \in 1..SSeqCapacity |->
                    IF k > c.length /\ k <= c.length + n THEN src[k - c.length] ELSE c.bytes[k]],
     length |-> c.length + n]

\* the container after a push of src that failed with v: left unmodified
FailedPush(c, src, v) == c

\* mutant of PushOffset: src is copied to the start of the array
PushOffset_Start(c) == 0

\* where the first byte of src is stored (0-based): after the bytes held
PushOffset(c) == c.length

\* push: the alphabet of src is checked under the rule of construction, then
\* the new total length against the capacity; then src is appended
push(c, src) ==
    LET v == validate_bytes(src) IN
    IF v.tag = "Panic" THEN [cont |-> FailedPush(c, src, v), ret |-> v]
    ELSE IF c.length + Len(src) > SSeqCapacity
    THEN LET e == Panic("capacity exceeded") IN [cont |-> FailedPush(c, src, e), ret |-> e]
    ELSE LET off == PushOffset(c) IN
         [cont |-> [bytes  |-> [k \in 1..SSeqCapacity |->
                                   IF k > off /\ k <= off + Len(src)
                                   THEN src[k - off] ELSE c.bytes[k]],
                    length |-> c.length + Len(src)],
          ret  |-> Ok("unit")]

\* the arguments drawn: all short slices, with a lower-case byte among them,
\* and slices that fill the capacity or exceed it, with and without a
\* disallowed byte in their middle
PushArgs ==
    SeqsUpTo(Alphabet \cup {"a"}, MaxPushLen)
    \cup {Periodic(UPPER_ACGTN, n) : n \in (SSeqCapacity - MaxPushLen - 1)..(SSeqCapacity + 1)}
    \cup {[Periodic(UPPER_ACGTN, n) EXCEPT ![n \div 2] = "a"] :
            n \in (SSeqCapacity - MaxPushLen - 1)..(SSeqCapacity + 1)}

Call(op, arg, ret) == [op |-> op, arg |-> arg, ok |-> ret.tag = "Ok"]

\* let s = SSeq::from_bytes(b)
Construct(b) ==
    /\ Alive
    /\ hist = <<>>
    /\ iters = <<>>
    /\ LET r == from_bytes(b) IN
         /\ cont' = IF r.tag = "Ok" THEN r.val ELSE cont
         /\ res' = [op |-> "from_bytes", ret |-> r]
         /\ hist' = Append(hist, Call("from_bytes", b, r))
    /\ bytes' = b
    /\ UNCHANGED <<given, iters, out>>

\* s.push(b)
Push(b) ==
    /\ Alive
    /\ Len(hist) < PushesInTest
    /\ iters = <<>>
    /\ LET r == push(cont, b) IN
         /\ cont' = r.cont
         /\ res' = [op |-> "push", ret |-> r.ret]
         /\ hist' = Append(hist, Call("push", b, r.ret))
    /\ bytes' = b
    /\ UNCHANGED <<given, iters, out>>

\* s.one_hamming_iter(opt): the enumerator gets a copy of the value
StartEnum(opt) ==
    /\ Alive
    /\ iters = <<>>
    /\ cont.length <= MaxEnumLen
    /\ given' = <<[source |-> as_bytes(cont), opt |-> opt]>>
    /\ iters' = <<one_hamming_iter(as_bytes(cont), opt)>>
    /\ out' = <<<<>>>>
    /\ UNCHANGED <<bytes, res, cont, hist>>

NextPush ==
    \/ \E b \in PushArgs : Construct(b)
    \/ \E b \in PushArgs : Push(b)
    \/ \E opt \in HammingIterOpt : StartEnum(opt)
    \/ \E i \in DOMAIN iters : CallNext(i)

\* let mut s = SSeq::new()
InitPush ==
    /\ cont = ByteArray_new
    /\ hist = <<>>
    /\ bytes = <<>>
    /\ res = NoCall
    /\ given = <<>>
    /\ iters = <<>>
    /\ out = <<>>

SpecPush == InitPush /\ [][NextPush]_vars

(***************************************************************************)
(* Vocabulary of the properties.                                           *)
(***************************************************************************)
\* the substitution alphabet, in its fixed order
ACGT == <<"A", "C", "G", "T">>

\* the items (payloads of Some) of a return history, in order
Items(h) ==
    LET IsSome(r) == r.tag = "Some"
        s == SelectSeq(h, IsSome)
    IN  [k \in 1..Len(s) |-> s[k].val]

Range(f) == {f[k] : k \in DOMAIN f}

Exhausted(i) == NoneCount(out[i]) > 0

SkipPolicy(i) == given[i].opt = "SkipNBase"

\* positions (1-based) at which two sequences of one length differ
DiffPositions(a, b) == {p \in 1..Len(a) : a[p] # b[p]}

\* The reference enumeration: the slots (position, candidate) in lexicographic
\* order, positions ascending and candidates in the order A, C, G, T, without
\* the slots of a skipped 'N' position and without the candidate equal to the
\* byte of the source.
RefEnum(S, skip) ==
    LET pos(k) == ((k - 1) \div 4) + 1
        cand(k) == ACGT[((k - 1) % 4) + 1]
        Keep(k) == ~(skip /\ S[pos(k)] = "N") /\ cand(k) # S[pos(k)]
        ks == SelectSeq([k \in 1..(4 * Len(S)) |-> k], Keep)
    IN  [j \in 1..Len(ks) |-> [S EXCEPT ![pos(ks[j])] = cand(ks[j])]]

Str3(a, b, c) == <<a, b, c>>

\* C1: the values returned by repeated next() calls are, item for item and in
\* the same order, the reference enumeration followed by None; "GAT" and "GNT"
\* under Skip give the two lists of test_one_hamming_simple.
C1_EnumerationOrder ==
    \A i \in DOMAIN iters :
        LET S == given[i].source
            ref == RefEnum(S, SkipPolicy(i))
            h == out[i]
        IN  /\ \A k \in 1..Len(h) :
                  h[k] = IF k <= Len(ref) THEN Some(ref[k]) ELSE None
            /\ (Exhausted(i) /\ SkipPolicy(i) /\ S = Str3("G", "A", "T")) =>
                  Items(h) = << Str3("A", "A", "T"), Str3("C", "A", "T"), Str3("T", "A", "T"),
                                Str3("G", "C", "T"), Str3("G", "G", "T"), Str3("G", "T", "T"),
                                Str3("G", "A", "A"), Str3("G", "A", "C"), Str3("G", "A", "G") >>
            /\ (Exhausted(i) /\ SkipPolicy(i) /\ S = Str3("G", "N", "T")) =>
                  Items(h) = << Str3("A", "N", "T"), Str3("C", "N", "T"), Str3("T", "N", "T"),
                                Str3("G", "N", "A"), Str3("G", "N", "C"), Str3("G", "N", "G") >>

\* "GAT" under Skip was enumerated to the end: nine items, then None
C1_Witness ==
    \E i \in DOMAIN iters :
        /\ given[i] = [source |-> Str3("G", "A", "T"), opt |-> "SkipNBase"]
        /\ Len(Items(out[i])) = 9
        /\ Exhausted(i)

\* C2: once the enumerator is exhausted, every sequence that equals the source
\* except for one position p holding another symbol of ACGT has been emitted
\* (every p under Mutate, every p with S[p] # 'N' under Skip).
C2_AllVariants ==
    \A i \in DOMAIN iters :
        Exhausted(i) =>
            LET S == given[i].source IN
            \A p \in 1..Len(S), c \in Range(ACGT) :
                (c # S[p] /\ (~SkipPolicy(i) \/ S[p] # "N")) =>
                    [S EXCEPT ![p] = c] \in Range(Items(out[i]))

\* a source with an 'N' and a base was enumerated to the end under Mutate
C2_Witness ==
    \E i \in DOMAIN iters :
        /\ Exhausted(i)
        /\ ~SkipPolicy(i)
        /\ Len(given[i].source) >= 3
        /\ "N" \in Range(given[i].source)
        /\ "T" \in Range(given[i].source)

\* C3: a full enumeration emits 3*nonN items under Skip and 3*nonN + 4*nN
\* under Mutate, and at no time are two emitted items equal.
C3_Count ==
    \A i \in DOMAIN iters :
        LET S == given[i].source
            its == Items(out[i])
            nN == Cardinality({p \in 1..Len(S) : S[p] = "N"})
            nonN == Len(S) - nN
        IN  /\ Cardinality(Range(its)) = Len(its)
            /\ Exhausted(i) =>
                  Len(its) = IF SkipPolicy(i) THEN 3 * nonN ELSE 3 * nonN + 4 * nN

\* a source with 'N' and non-'N' positions, fully enumerated under Skip
C3_Witness ==
    \E i \in DOMAIN iters :
        LET S == given[i].source IN
        /\ Exhausted(i)
        /\ SkipPolicy(i)
        /\ \E p, q \in 1..Len(S) : S[p] = "N" /\ S[q] # "N"
        /\ Len(Items(out[i])) > 0

\* C4: every emitted item has the length of the source given at construction
\* and differs from it in exactly one position, and the enumerator's stored
\* source is still that source.
C4_OneSubstitution ==
    \A i \in DOMAIN iters :
        LET S == given[i].source IN
        /\ iters[i].source = S
        /\ \A item \in Range(Items(out[i])) :
              /\ Len(item) = Len(S)
              /\ Cardinality(DiffPositions(item, S)) = 1

\* items were emitted for at least two positions of the source
C4_Witness ==
    \E i \in DOMAIN iters :
        /\ iters[i].position >= 1
        /\ Len(Items(out[i])) >= 4
        /\ \E a, b \in Range(Items(out[i])) :
              DiffPositions(a, given[i].source) # DiffPositions(b, given[i].source)

\* C5: the byte written into the substituted position of an emitted item is
\* one of A, C, G, T, never 'N'.
C5_NeverWritesN ==
    \A i \in DOMAIN iters :
        \A item \in Range(Items(out[i])) :
            \A p \in DiffPositions(item, given[i].source) :
                item[p] \in Range(ACGT) /\ item[p] # "N"

\* chars_index stands at the index of 'N' after items were emitted, at an 'N'
\* position that is mutated
C5_Witness ==
    \E i \in DOMAIN iters :
        /\ iters[i].chars_index = N_BASE_INDEX
        /\ iters[i].chars[iters[i].chars_index + 1] = "N"
        /\ ~SkipPolicy(i)
        /\ iters[i].position < Len(iters[i].source)
        /\ iters[i].source[iters[i].position + 1] = "N"
        /\ Len(Items(out[i])) >= 4

\* the struct of an enumerator over (S, opt) that ran to its end
ExhaustedStruct(S, opt) ==
    [new(S, opt) EXCEPT !.position = Len(S), !.chars_index = 0]

\* C6: a call made with position >= L returns None and leaves the struct as it
\* was; None is returned only with position >= L, every value returned after a
\* None is None, and the first call on an empty source returns None.
C6_Exhaustion ==
    /\ [](\A i \in DOMAIN iters :
            LET h == out[i]
                S == given[i].source
            IN  /\ \A j, k \in 1..Len(h) : (j < k /\ h[j] = None) => h[k] = None
                /\ Exhausted(i) => iters[i] = ExhaustedStruct(S, given[i].opt)
                /\ (Len(S) = 0 /\ Len(h) >= 1) => h[1] = None)
    /\ [][\A i \in DOMAIN iters :
            (iters[i].position >= Len(iters[i].source) /\ out'[i] # out[i]) =>
                /\ out'[i] = Append(out[i], None)
                /\ iters'[i] = iters[i]]_vars

\* a non-empty source was enumerated, and next() was called again after the
\* first None
C6_Witness ==
    \E i \in DOMAIN iters :
        /\ Len(given[i].source) >= 2
        /\ Len(Items(out[i])) >= 6
        /\ NoneCount(out[i]) >= 2

\* what n calls of next() return on an enumerator that runs alone
RECURSIVE SoloHistory(_, _)
SoloHistory(it, n) ==
    IF n = 0 THEN <<>>
    ELSE LET r == next(it) IN <<r.ret>> \o SoloHistory(r.it, n - 1)

\* the struct of an enumerator that runs alone, after n calls of next()
RECURSIVE SoloState(_, _)
SoloState(it, n) == IF n = 0 THEN it ELSE SoloState(next(it).it, n - 1)

\* C7: of two enumerators constructed over one source and policy and stepped
\* in any interleaving, each has returned what a fresh enumerator running alone
\* returns in as many calls, and holds the struct that enumerator would hold.
C7_PrivateState ==
    \A i \in DOMAIN iters :
        LET fresh == one_hamming_iter(given[i].source, given[i].opt)
            n == Len(out[i])
        IN  /\ out[i] = SoloHistory(fresh, n)
            /\ iters[i] = SoloState(fresh, n)

\* two enumerators over the same arguments, at different points of their runs
C7_Witness ==
    /\ DOMAIN iters = {1, 2}
    /\ given[1] = given[2]
    /\ Len(Items(out[1])) >= 2
    /\ Len(Items(out[2])) >= 1
    /\ iters[1].position # iters[2].position
    /\ iters[1].chars_index # iters[2].chars_index

\* the encoding as a polynomial in 4, most significant symbol first:
\* value(s . b) = 4 * value(s) + v(b), in 32 bits kept as two halves
RECURSIVE Horner(_, _)
Horner(S, n) ==
    IF n = 0 THEN U32(0, 0)
    ELSE LET h == Horner(S, n - 1)
             lo4 == 4 * h.lo + MatchBase(S[n])
         IN  U32(4 * h.hi + (lo4 \div Half), lo4 % Half)

\* sum over the (1-based) positions i of v_i * 4^(L-i), for L <= 15
RECURSIVE SumFrom(_, _)
SumFrom(S, i) ==
    IF i > Len(S) THEN 0 ELSE MatchBase(S[i]) * (4 ^ (Len(S) - i)) + SumFrom(S, i + 1)

Encoded == res.op = "encode_2bit_u32"

HasN(S) == \E k \in 1..Len(S) : S[k] = "N"

\* C8: on a sequence of length L <= 16 over ACGT, encode_2bit_u32 returns the sum
\* over i of v_i * 4^(L-1-i) with A=0, C=1, G=2, T=3 (AAAAA->0, AAAAT->3,
\* AAACA->4, AACAA->16, AATA->12, the empty sequence ->0).
C8_EncodeValue ==
    (Encoded /\ Len(bytes) <= 16 /\ ~HasN(bytes)) =>
        /\ res.ret.tag = "Ok"
        /\ res.ret.val = Horner(bytes, Len(bytes))
        /\ Len(bytes) <= 15 => res.ret.val.hi * Half + res.ret.val.lo = SumFrom(bytes, 1)
        /\ bytes = <<"A", "A", "A", "A", "A">> => res.ret.val = U32(0, 0)
        /\ bytes = <<"A", "A", "A", "A", "T">> => res.ret.val = U32(0, 3)
        /\ bytes = <<"A", "A", "A", "C", "A">> => res.ret.val = U32(0, 4)
        /\ bytes = <<"A", "A", "C", "A", "A">> => res.ret.val = U32(0, 16)
        /\ bytes = <<"A", "A", "T", "A">> => res.ret.val = U32(0, 12)
        /\ bytes = <<>> => res.ret.val = U32(0, 0)

\* a sequence of 16 symbols whose first symbol is T was encoded: bits 30 and 31 are set
C8_Witness ==
    /\ Encoded
    /\ Len(bytes) = 16
    /\ bytes[1] = "T"
    /\ bytes[16] = "C"
    /\ res.ret.tag = "Ok"
    /\ res.ret.val.hi >= 49152

\* C9: encode_2bit_u32 on a sequence longer than 16 fails on the length
\* assertion (with or without an 'N'), on a sequence of at most 16 symbols with
\* an 'N' it fails on the symbol, and it returns a number in neither case.
C9_EncodeFailures ==
    Encoded =>
        /\ Len(bytes) > 16 => res.ret = Panic("assertion failed: self.len() <= 16")
        /\ (Len(bytes) <= 16 /\ HasN(bytes)) => res.ret = Panic("non-ACGT sequence")
        /\ res.ret.tag = "Ok" => (Len(bytes) <= 16 /\ ~HasN(bytes))

\* a sequence of more than 16 symbols that holds an 'N' was given to encode_2bit_u32
C9_Witness ==
    /\ Encoded
    /\ Len(bytes) > 16
    /\ HasN(bytes)
    /\ res.ret.tag = "Panic"

\* C10 as claimed: a failed operation hands its caller an error value, it does
\* not panic.
C10_ErrorValues == res.op # "none" => res.ret.tag \in {"Ok", "Err"}

\* C10 as amended: a disallowed byte in validate_bytes, more than 16 symbols or
\* an 'N' in encode_2bit_u32 and an empty sequence in is_homopolymer each end
\* the call in a panic, and no call returns an error value; the calls that do
\* not meet these conditions return normally.
C10_FailuresPanic ==
    /\ res.op # "none" => res.ret.tag \in {"Ok", "Panic"}
    /\ res.op = "validate_bytes" =>
          (res.ret.tag = "Panic" <=> \E k \in 1..Len(bytes) : bytes[k] \notin Alphabet)
    /\ res.op = "encode_2bit_u32" =>
          (res.ret.tag = "Panic" <=> (Len(bytes) > 16 \/ HasN(bytes)))
    /\ res.op = "is_homopolymer" =>
          (res.ret.tag = "Panic" <=> Len(bytes) = 0)

\* is_homopolymer was called on the empty sequence and panicked
C10_Witness ==
    /\ res.op = "is_homopolymer"
    /\ bytes = <<>>
    /\ res.ret.tag = "Panic"

Constructed == res.op = "from_bytes"

\* the (1-based) indices of the bytes of b outside {A, C, G, T, N}
BadIndices(b) == {k \in 1..Len(b) : b[k] \notin {"A", "C", "G", "T", "N"}}

Min(S) == CHOOSE m \in S : \A x \in S : m <= x

\* C11: from_bytes on a byte sequence over {A,C,G,T,N} of length 0..23
\* succeeds, and as_bytes() and seq() of the result are exactly that sequence.
C11_FromBytesRoundTrip ==
    (Constructed /\ BadIndices(bytes) = {} /\ Len(bytes) <= 23) =>
        /\ res.ret.tag = "Ok"
        /\ Len(as_bytes(res.ret.val)) = Len(bytes)
        /\ as_bytes(res.ret.val) = bytes
        /\ SSeqGen_seq(res.ret.val) = bytes

\* a container of 23 bytes that hold an 'N' was constructed
C11_Witness ==
    /\ Constructed
    /\ Len(bytes) = 23
    /\ HasN(bytes)
    /\ bytes[1] # bytes[2]
    /\ res.ret.tag = "Ok"

\* C12: from_bytes on a byte sequence with a byte outside the upper-case set
\* {A,C,G,T,N} fails on the alphabet, yields no container, and reports the
\* first such byte and its position.
C12_InvalidAlphabet ==
    (Constructed /\ BadIndices(bytes) # {}) =>
        /\ res.ret.tag = "Panic"
        /\ res.ret.msg = "Non ACGTN character at position"
        /\ res.ret.byte = bytes[Min(BadIndices(bytes))]
        /\ res.ret.position = Min(BadIndices(bytes)) - 1

\* construction from a slice with two disallowed bytes, the first one lower
\* case and not at the start
C12_Witness ==
    /\ Constructed
    /\ Cardinality(BadIndices(bytes)) >= 2
    /\ Min(BadIndices(bytes)) >= 2
    /\ bytes[Min(BadIndices(bytes))] = "a"
    /\ res.ret.tag = "Panic"

TwoPushes == Len(hist) = 2 /\ hist[1].op = "push" /\ hist[2].op = "push"

\* C14: a push that fails, on the capacity or on a byte outside the alphabet
\* anywhere in its argument, leaves the length and the contents of the
\* container exactly as they were before the call.
C14_PushAtomic ==
    [][(hist' # hist /\ res'.op = "push" /\ res'.ret.tag = "Panic") =>
          /\ cont' = cont
          /\ cont'.length = cont.length
          /\ as_bytes(cont') = as_bytes(cont)]_vars

\* a push onto a non-empty container failed on the last byte of its argument
C14_Witness ==
    /\ res.op = "push"
    /\ res.ret.tag = "Panic"
    /\ cont.length > 0
    /\ Len(bytes) >= 2
    /\ BadIndices(bytes) = {Len(bytes)}

\* C15: push(s1) then push(s2) on an empty container, for s1 and s2 over
\* {A,C,G,T,N} with len(s1) + len(s2) <= 23, both succeed and give the value
\* that from_iter gives on s1 followed by s2.
C15_PushConcat ==
    /\ (Len(hist) >= 1 /\ hist[1].op = "push"
          /\ BadIndices(hist[1].arg) = {} /\ Len(hist[1].arg) <= 23) => hist[1].ok
    /\ (TwoPushes /\ BadIndices(hist[1].arg) = {} /\ BadIndices(hist[2].arg) = {}
          /\ Len(hist[1].arg) + Len(hist[2].arg) <= 23) =>
          LET whole == from_iter(hist[1].arg \o hist[2].arg) IN
          /\ hist[2].ok
          /\ whole.tag = "Ok"
          /\ cont = whole.val
          /\ as_bytes(cont) = hist[1].arg \o hist[2].arg

\* two non-empty pushes that fill the container to its capacity
C15_Witness ==
    /\ TwoPushes
    /\ hist[1].ok /\ hist[2].ok
    /\ Len(hist[1].arg) > 0 /\ Len(hist[2].arg) > 0
    /\ hist[1].arg # hist[2].arg
    /\ cont.length = 23

\* C16: every byte stored in a container, and every byte of the source and of
\* the items of an enumerator started on it, is one of A, C, G, T, N.
C16_AlphabetInvariant ==
    /\ \A k \in 1..cont.length : cont.bytes[k] \in {"A", "C", "G", "T", "N"}
    /\ (res.op = "from_bytes" /\ res.ret.tag = "Ok") =>
          \A k \in 1..res.ret.val.length : res.ret.val.bytes[k] \in {"A", "C", "G", "T", "N"}
    /\ \A i \in DOMAIN iters :
          /\ \A k \in 1..Len(iters[i].source) : iters[i].source[k] \in {"A", "C", "G", "T", "N"}
          /\ \A item \in Range(Items(out[i])) :
                \A k \in 1..Len(item) : item[k] \in {"A", "C", "G", "T", "N"}

\* a container built by a construction and a push, one of them holding 'N',
\* was enumerated under Mutate past its 'N' position
C16_Witness ==
    /\ Len(hist) = 2
    /\ hist[1].op = "from_bytes" /\ hist[1].ok
    /\ hist[2].op = "push" /\ hist[2].ok /\ Len(hist[2].arg) > 0
    /\ \E k \in 1..cont.length : cont.bytes[k] = "N"
    /\ \E i \in DOMAIN iters :
          /\ ~SkipPolicy(i)
          /\ Exhausted(i)
          /\ Len(Items(out[i])) >= 7

\* C19: is_homopolymer on a container of length >= 1 returns true iff every
\* stored byte equals the first one (so true for every sequence of length 1);
\* on the empty container it fails on the emptiness assertion and returns
\* neither true nor false.
C19_IsHomopolymer ==
    res.op = "is_homopolymer" =>
        /\ Len(bytes) >= 1 =>
              /\ res.ret.tag = "Ok"
              /\ res.ret.val = (\A k \in 1..Len(bytes) : bytes[k] = bytes[1])
              /\ res.ret.val = (Cardinality(Range(bytes)) = 1)
        /\ Len(bytes) = 1 => (res.ret.tag = "Ok" /\ res.ret.val = TRUE)
        /\ Len(bytes) = 0 =>
              /\ res.ret.tag = "Panic"
              /\ res.ret.msg = "assertion failed: !self.is_empty()"

\* is_homopolymer returned false for a sequence whose last byte alone differs
\* from the first
C19_Witness ==
    /\ res.op = "is_homopolymer"
    /\ Len(bytes) >= 3
    /\ \A k \in 1..(Len(bytes) - 1) : bytes[k] = bytes[1]
    /\ bytes[Len(bytes)] # bytes[1]
    /\ res.ret.tag = "Ok"
    /\ res.ret.val = FALSE

\* C20: has_homopolymer_suffix(c, n) is true iff L >= n and each of the last n
\* stored bytes equals c (false whenever n > L, true for n = 0), and
\* has_polyt_suffix(n) is that predicate for c = 'T'.
C20_HomopolymerSuffix ==
    LET L == Len(bytes)
        LastAre(c, n) == L >= n /\ \A k \in (L - n + 1)..L : bytes[k] = c
    IN  /\ res.op = "has_homopolymer_suffix" =>
              /\ res.ret.val = LastAre(res.c, res.n)
              /\ res.n > L => res.ret.val = FALSE
              /\ res.n = 0 => res.ret.val = TRUE
        /\ res.op = "has_polyt_suffix" =>
              /\ res.ret.val = LastAre("T", res.n)
              /\ res.n > L => res.ret.val = FALSE

\* n exceeds the length of a container whose bytes all equal c: the answer is false
C20_Witness ==
    /\ res.op = "has_homopolymer_suffix"
    /\ Len(bytes) >= 2
    /\ res.n = Len(bytes) + 1
    /\ \A k \in 1..Len(bytes) : bytes[k] = res.c
    /\ res.ret.val = FALSE

\* C18: for every valid sequence of length 0..23, the text form of its
\* container is exactly the quoted string of its symbols, and reading back the
\* text form, or the binary form, yields a container equal to the original
\* (same length, same bytes).
C18_SerdeRoundTrip ==
    res.op \in {"serde_json", "bincode"} =>
        /\ Len(bytes) <= SSeqCapacity
        /\ res.ret.tag = "Ok"
        /\ res.ret.val = from_bytes(bytes).val
        /\ res.ret.val.length = Len(bytes)
        /\ as_bytes(res.ret.val) = bytes
        /\ res.op = "serde_json" =>
              /\ Len(res.wire) = Len(bytes) + 2
              /\ \A k \in 1..Len(bytes) : res.wire[k + 1] = bytes[k]
              /\ res.wire[1] = "\"" /\ res.wire[Len(res.wire)] = "\""

\* the text form of the value of test_serde_json was read back
C18_Witness ==
    /\ res.op = "serde_json"
    /\ bytes = SerdeTestSeq
    /\ res.ret.tag = "Ok"
    /\ as_bytes(res.ret.val) = SerdeTestSeq

\* the natural order of the bytes of the alphabet, pair by pair
ByteLt(p, q) ==
    <<p, q>> \in { <<"A","C">>, <<"A","G">>, <<"A","N">>, <<"A","T">>, <<"C","G">>,
                   <<"C","N">>, <<"C","T">>, <<"G","N">>, <<"G","T">>, <<"N","T">> }

\* x is a strict prefix of y
StrictPrefix(x, y) == Len(x) < Len(y) /\ \A k \in 1..Len(x) : x[k] = y[k]

\* x is before y in the lexicographic order of byte slices
LexLess(x, y) ==
    \/ StrictPrefix(x, y)
    \/ \E k \in 1..Len(x) :
          /\ k <= Len(y)
          /\ \A j \in 1..(k - 1) : x[j] = y[j]
          /\ ByteLt(x[k], y[k])

Count(v, e) == Cardinality({k \in DOMAIN v : v[k] = e})

\* sort_test's raw byte strings in sorted order
SortTestSorted ==
    << <<>>,
       <<"A">>,
       <<"A","A","C","C","A","T","A","G","C","C","G","G","N","A","T","C">>,
       <<"A","C","N","G","T","A">>,
       <<"C","A","T","C">>,
       <<"G","A","A","C","N","A","G","N","T","G","G","A">>,
       <<"T","A","G","T","C","G","G","C">>,
       <<"T","G","T","G">> >>

\* C17: containers are ordered as their byte sequences are ordered
\* lexicographically: a < b iff as_bytes(a) < as_bytes(b), a strict prefix
\* (the empty sequence included) comes first, otherwise the first differing byte
\* decides; a == b iff the byte sequences are identical, length included; and
\* sorting containers gives the order that sorting their raw bytes gives.
C17_LexicographicOrder ==
    LET x == as_bytes(cont)
        y == bytes
    IN  /\ res.op = "cmp" =>
              /\ (res.ret.val.ord = "Less") = LexLess(x, y)
              /\ (res.ret.val.ord = "Greater") = LexLess(y, x)
              /\ (res.ret.val.ord = "Equal") = (x = y)
              /\ (res.ret.val.rev = "Less") = LexLess(y, x)
              /\ res.ret.val.eq = (Len(x) = Len(y) /\ \A k \in 1..Len(x) : x[k] = y[k])
              /\ StrictPrefix(x, y) => res.ret.val.ord = "Less"
              /\ (x = <<>> /\ y # <<>>) => res.ret.val.ord = "Less"
        /\ res.op = "sort" =>
              LET got  == [k \in DOMAIN res.ret.val |-> as_bytes(res.ret.val[k])]
                  from == <<x, y>> \o SortTestSeqs
              IN  /\ Len(got) = Len(from)
                  /\ \A k \in DOMAIN from : Count(got, from[k]) = Count(from, from[k])
                  /\ \A k \in 1..(Len(got) - 1) : ~LexLess(got[k + 1], got[k])
                  /\ (x = <<>> /\ y = <<>>) => got = <<x, y>> \o SortTestSorted

\* a shorter sequence that is no prefix of a longer one, and greater than it
\* by its first byte, was compared with it
C17_Witness ==
    /\ res.op = "cmp"
    /\ as_bytes(cont) = <<"T">>
    /\ bytes = <<"N", "A">>
    /\ res.ret.val.ord = "Greater"
    /\ res.ret.val.eq = FALSE

\* (position, chars_index) of cursor q is after that of cursor p
CursorLess(p, q) ==
    \/ p.position < q.position
    \/ p.position = q.position /\ p.chars_index < q.chars_index

\* C21: in every state of a call of next(), 0 <= position <= L and
\* 0 <= chars_index <= 4; source is read only at an index < L, chars is read at
\* chars_index only when chars_index <= 3, and no read is out of bounds; position
\* never decreases; where position advances chars_index is 0 afterwards, and
\* chars_index goes down only where position advances.
C21_CursorInvariant ==
    /\ [](LET it == iters[1]
              L  == Len(given[1].source)
          IN  /\ 0 <= it.position /\ it.position <= L
              /\ 0 <= it.chars_index /\ it.chars_index <= N_BASE_INDEX
              /\ \A k \in res.read.source : 0 <= k /\ k < L
              /\ \A k \in res.read.at_index : 0 <= k /\ k <= N_BASE_INDEX - 1
              /\ \A k \in res.read.chars : 0 <= k /\ k < Len(it.chars)
              /\ res.ret.tag # "Panic")
    /\ [][/\ iters'[1].position >= iters[1].position
          /\ iters'[1].position > iters[1].position =>
                /\ iters'[1].position = iters[1].position + 1
                /\ iters'[1].chars_index = 0
          /\ iters'[1].chars_index < iters[1].chars_index =>
                iters'[1].position > iters[1].position
          /\ iters'[1].position = iters[1].position =>
                iters'[1].chars_index \in {iters[1].chars_index, iters[1].chars_index + 1}]_vars

\* the pass that leaves the last position of a source of length >= 2, after T
\* was used there: position = L and chars_index = 0 afterwards
C21_Witness ==
    /\ res.ret = Reenter
    /\ Len(given[1].source) >= 2
    /\ iters[1].position = Len(given[1].source)
    /\ iters[1].chars_index = 0
    /\ res.read.source = {Len(given[1].source) - 1}
    /\ Len(Items(out[1])) >= 6

\* C22: every call of next() returns: the self-recursive re-entries of one call
\* number at most 5 for each position left when the call was made, each
\* re-entry moves (position, chars_index) strictly forward, and an enumeration
\* emits at most 4*L items.
C22_Termination ==
    /\ [](LET L == Len(given[1].source) IN
              /\ res.reentries <= 5 * (L - res.start.position)
              /\ Len(Items(out[1])) <= 4 * L)
    /\ [][res'.ret = Reenter =>
              /\ CursorLess(iters[1], iters'[1])
              /\ res'.reentries = (IF Running THEN res.reentries ELSE 0) + 1]_vars
    /\ (Running ~> ~Running)

\* a Skip enumeration over a run of three or more 'N's: one call, one re-entry
\* for each 'N', then None
C22_Witness ==
    /\ given[1].opt = "SkipNBase"
    /\ Len(given[1].source) >= 3
    /\ \A k \in 1..Len(given[1].source) : given[1].source[k] = "N"
    /\ out[1] = <<None>>
    /\ res.reentries = Len(given[1].source)

\* the items of v that differ from S at no position where S holds 'N'
WithoutNVariants(v, S) ==
    LET Keep(x) == \A k \in 1..Len(S) : x[k] # S[k] => S[k] # "N"
    IN  SelectSeq(v, Keep)

IsPrefix(x, y) == Len(x) <= Len(y) /\ \A k \in 1..Len(x) : x[k] = y[k]

\* C23: over one source S, the Skip enumeration is the Mutate enumeration
\* without the items that differ from S at an 'N' position, in the same order:
\* at any time one of the two is a prefix of the other, and they are equal once
\* both enumerators are exhausted; over a source without 'N' the two
\* enumerations are identical.
C23_SkipIsFilteredMutate ==
    LET S      == given[1].source
        mutate == Items(out[1])
        skip   == Items(out[2])
        kept   == WithoutNVariants(mutate, S)
    IN  /\ IsPrefix(kept, skip) \/ IsPrefix(skip, kept)
        /\ (Exhausted(1) /\ Exhausted(2)) =>
              /\ skip = kept
              /\ ~HasN(S) => skip = mutate

\* both policies ran to exhaustion over a source that holds an 'N' and another
\* base: the Mutate enumeration is longer by the four variants at the 'N'
C23_Witness ==
    /\ given[1].opt = "MutateNBase"
    /\ given[2].opt = "SkipNBase"
    /\ Exhausted(1) /\ Exhausted(2)
    /\ HasN(given[1].source)
    /\ \E k \in 1..Len(given[1].source) : given[1].source[k] # "N"
    /\ Len(Items(out[2])) >= 3
    /\ Len(Items(out[1])) > Len(Items(out[2]))

\* the u32 v is below 4^L
Below4Pow(v, L) ==
    /\ 0 <= v.hi /\ v.hi < Half
    /\ 0 <= v.lo /\ v.lo < Half
    /\ L < 8 => (v.hi = 0 /\ v.lo < 4 ^ L)
    /\ (L >= 8 /\ L < 16) => v.hi < 4 ^ (L - 8)

\* C24: two 'N'-free sequences of one length L <= 16 have equal encodings iff
\* they are equal, and each encoding is a number below 4^L (for L = 16 a
\* 32-bit number in which the first symbol's two bits, shifted by 30, are kept).
C24_EncodeKey ==
    res.op = "encode_pair" =>
        LET x == bytes
            y == as_bytes(cont)
            a == res.ret.val.a
            b == res.ret.val.b
        IN  (Len(x) = Len(y) /\ Len(x) <= 16 /\ ~HasN(x) /\ ~HasN(y)) =>
                /\ a.tag = "Ok" /\ b.tag = "Ok"
                /\ (a.val = b.val) = (x = y)
                /\ Below4Pow(a.val, Len(x))
                /\ Below4Pow(b.val, Len(y))
                /\ Len(x) = 16 => a.val.hi \div 16384 = MatchBase(x[1])

\* two sequences of 16 symbols that differ in the first symbol only, one of
\* them with T there, were encoded
C24_Witness ==
    /\ res.op = "encode_pair"
    /\ Len(bytes) = 16
    /\ bytes[1] = "T"
    /\ as_bytes(cont)[1] # "T"
    /\ \A k \in 2..16 : bytes[k] = as_bytes(cont)[k]
    /\ res.ret.val.a.val # res.ret.val.b.val
    /\ res.ret.val.a.val.hi >= 49152

\* the part of the barcode read that the barcode range of the DnaRead covers
BcPart(part) ==
    LET r == cont.bc_range
        b == cont.data[r.read].val[part]
    IN  SubSeq(b, r.offset + 1, IF r.len = None THEN Len(b) ELSE r.offset + r.len.val)

\* C25 as claimed: barcode_qual() returns the quality values over the barcode
\* range, the bytes raw_bc_qual() returns.
C25_BarcodeQual ==
    res.op = "barcode_qual" => res.ret = Ok(BcPart("qual"))

\* where the trimmed bases of R1 start (0-based): after the barcode if it is in R1
TrimStart ==
    IF cont.bc_range.read = "R1" THEN cont.bc_range.offset + cont.bc_range.len.val ELSE 0

C27_TrimInRange ==
    /\ res.op = "r1_trim_range" => res.ret.val.end <= Len(cont.data["R1"].val["seq"])
    /\ res.op \in {"r1_trim_seq", "r1_trim_qual", "r1_seq", "r1_qual", "tags"} =>
          res.ret.tag = "Ok"

====
